---- MODULE Spec2Model ----
(***************************************************************************)
(* Gemini Notes: the note repository (notes + localStorage slot), the      *)
(* query engine (filteredNotes), the note editor session (editingNote,     *)
(* isNoteModalOpen) and the two asynchronous AI calls of src/App.tsx and   *)
(* src/services/geminiService.ts.                                          *)
(*                                                                         *)
(* Text is a sequence of one-character strings.  A nullable value is a     *)
(* sequence of length 0 (null) or 1.                                       *)
(***************************************************************************)
EXTENDS Integers, Sequences, FiniteSets

VARIABLES
    phase,             \* "boot" (before the useState initializer ran), "running", "crashed"
    storage,           \* the localStorage slot 'notes-app-data'
    notes,             \* useState<Note[]>
    searchQuery,       \* useState('')
    selectedCategory,  \* useState<Category | 'All'>('All')
    editingNote,       \* useState<Note | null>: <<>> is null, <<n>> is the note n
    isNoteModalOpen,   \* useState(false)
    isAILoading,       \* useState(false)
    inflight,          \* the AI calls awaiting their remote answer, in order of issue
    lastExport,        \* the document handed to jsPDF by the last export: <<>> or <<doc>>
    shortCircuited,    \* history: Smart Suggest was pressed on content under the threshold
                       \* since the page loaded
    effectPending,     \* the persistence effect of the mount has not run yet
    now,               \* the value Date.now() returns
    events,            \* history: how many events (user actions, clock ticks, AI answers,
                       \* page loads) have happened
    maxSeen            \* history: per id, the largest updatedAt a repository note with that id had

vars == <<phase, storage, notes, searchQuery, selectedCategory, editingNote,
          isNoteModalOpen, isAILoading, inflight,
          lastExport, shortCircuited, effectPending, now, events, maxSeen>>

(***************************************************************************)
(* Bounds of the model.                                                    *)
(***************************************************************************)
\* Date.now() runs from 1 to MaxTime and never decreases.
MaxTime == 2

\* A behaviour has at most MaxEvents events.
MaxEvents == 7

(***************************************************************************)
(* Program constants.                                                      *)
(***************************************************************************)
CATEGORIES == <<"General", "Personal", "Work", "Ideas", "Urgent">>

Category == {CATEGORIES[i] : i \in 1..Len(CATEGORIES)}

\* getSmartSuggestions answers {} for content shorter than this.
MinContentLength == 10

(***************************************************************************)
(* Texts the model types into the editor or receives from the AI service.  *)
(***************************************************************************)
NoText == <<>>

TypedTitle == <<"B", "u", "y">>

ShortContent == <<"m", "i", "l", "k">>

LongContent == <<"b", "u", "y", " ", "M", "i", "l", "k", " ", "n", "o", "w">>

SuggestedTitle == <<"L", "i", "s", "t">>

EnhancedContent == <<"-", " ", "m", "i", "l", "k">>

UntitledNote == <<"U", "n", "t", "i", "t", "l", "e", "d", " ", "N", "o", "t", "e">>

TitleInputs == {NoText, TypedTitle}

ContentInputs == {ShortContent, LongContent}

CategoryInputs == {"Work"}

SearchInputs == {NoText, <<"b", "U">>}

FilterInputs == {"All", "Work"}

(***************************************************************************)
(* JavaScript helpers.                                                     *)
(***************************************************************************)
\* a || b on strings: the empty string is falsy.
OrElse(a, b) == IF a # NoText THEN a ELSE b

\* a || b on category strings, "" standing for undefined.
OrElseCat(a, b) == IF a # "" THEN a ELSE b

Digit(d) ==
    CASE d = 0 -> "0" [] d = 1 -> "1" [] d = 2 -> "2" [] d = 3 -> "3" [] d = 4 -> "4"
      [] d = 5 -> "5" [] d = 6 -> "6" [] d = 7 -> "7" [] d = 8 -> "8" [] d = 9 -> "9"

\* Number.prototype.toString() of a non-negative integer.
RECURSIVE toString(_)
toString(n) ==
    IF n < 10 THEN <<Digit(n)>> ELSE Append(toString(n \div 10), Digit(n % 10))

DigitValue(c) ==
    CASE c = "0" -> 0 [] c = "1" -> 1 [] c = "2" -> 2 [] c = "3" -> 3 [] c = "4" -> 4
      [] c = "5" -> 5 [] c = "6" -> 6 [] c = "7" -> 7 [] c = "8" -> 8 [] c = "9" -> 9
      [] OTHER -> -1

\* The number a JSON number token of decimal digits denotes.
RECURSIVE ParseNumber(_)
ParseNumber(s) ==
    IF Len(s) = 0 THEN 0
    ELSE 10 * ParseNumber(SubSeq(s, 1, Len(s) - 1)) + DigitValue(s[Len(s)])

IsNumber(s) == Len(s) > 0 /\ \A i \in 1..Len(s) : DigitValue(s[i]) >= 0

LowerChar(c) ==
    CASE c = "B" -> "b" [] c = "L" -> "l" [] c = "M" -> "m" [] c = "N" -> "n"
      [] c = "U" -> "u" [] OTHER -> c

\* String.prototype.toLowerCase()
toLowerCase(s) == [i \in 1..Len(s) |-> LowerChar(s[i])]

\* String.prototype.includes(q)
includes(s, q) ==
    \E i \in 0..(Len(s) - Len(q)) : SubSeq(s, i + 1, i + Len(q)) = q

\* String.prototype.replace(/\s+/g, '_'): every maximal run of spaces becomes one '_'.
RECURSIVE ReplaceSpaces(_)
ReplaceSpaces(s) ==
    IF Len(s) = 0 THEN <<>>
    ELSE IF s[1] = " "
         THEN IF Len(s) > 1 /\ s[2] = " "
              THEN ReplaceSpaces(Tail(s))
              ELSE <<"_">> \o ReplaceSpaces(Tail(s))
         ELSE <<s[1]>> \o ReplaceSpaces(Tail(s))

(***************************************************************************)
(* Notes.                                                                  *)
(***************************************************************************)
Note(id, title, content, category, updatedAt, isFavorite) ==
    [id |-> id, title |-> title, content |-> content, category |-> category,
     updatedAt |-> updatedAt, isFavorite |-> isFavorite]

\* Array.prototype.find(n => n.id === id) !== undefined
HasId(ns, id) == \E i \in 1..Len(ns) : ns[i].id = id

(***************************************************************************)
(* JSON text of the storage slot, as a sequence of tokens.  A token is     *)
(* [t, v]: t is the token's kind and v its text (the characters of a       *)
(* string, the decimal digits of a number, the one name of a key or of a   *)
(* category string).                                                       *)
(***************************************************************************)
Tok(t) == [t |-> t, v |-> <<>>]

Key(k) == [t |-> "key", v |-> <<k>>]

Str(s) == [t |-> "string", v |-> s]

Name(c) == [t |-> "string", v |-> <<c>>]

Num(n) == [t |-> "number", v |-> toString(n)]

Bool(b) == Tok(IF b THEN "true" ELSE "false")

NoteKeys == <<"id", "title", "content", "category", "updatedAt", "isFavorite">>

\* A faulty stringifyNote: isFavorite is written as false whatever it is.
stringifyNoteLosingFavorite(n) ==
    <<Tok("{"),
      Key("id"), Str(n.id), Tok(","),
      Key("title"), Str(n.title), Tok(","),
      Key("content"), Str(n.content), Tok(","),
      Key("category"), Name(n.category), Tok(","),
      Key("updatedAt"), Num(n.updatedAt), Tok(","),
      Key("isFavorite"), Bool(FALSE),
      Tok("}")>>

stringifyNote(n) ==
    <<Tok("{"),
      Key("id"), Str(n.id), Tok(","),
      Key("title"), Str(n.title), Tok(","),
      Key("content"), Str(n.content), Tok(","),
      Key("category"), Name(n.category), Tok(","),
      Key("updatedAt"), Num(n.updatedAt), Tok(","),
      Key("isFavorite"), Bool(n.isFavorite),
      Tok("}")>>

\* The number of tokens of one note object.
NoteTokens == Len(NoteKeys) * 3 + 1

RECURSIVE stringifyItems(_)
stringifyItems(ns) ==
    IF Len(ns) = 0 THEN <<>>
    ELSE IF Len(ns) = 1 THEN stringifyNote(ns[1])
    ELSE stringifyNote(ns[1]) \o <<Tok(",")>> \o stringifyItems(Tail(ns))

\* JSON.stringify(notes)
stringify(ns) == <<Tok("[")>> \o stringifyItems(ns) \o <<Tok("]")>>

\* Whether the tokens are one note object as JSON.stringify writes it.
IsNoteObject(ts) ==
    /\ Len(ts) = NoteTokens
    /\ ts[1].t = "{"
    /\ ts[NoteTokens].t = "}"
    /\ \A k \in 1..Len(NoteKeys) :
          /\ ts[3 * k - 1] = Key(NoteKeys[k])
          /\ k < Len(NoteKeys) => ts[3 * k + 1].t = ","
    /\ ts[3].t = "string"
    /\ ts[6].t = "string"
    /\ ts[9].t = "string"
    /\ ts[12].t = "string" /\ Len(ts[12].v) = 1
    /\ ts[15].t = "number" /\ IsNumber(ts[15].v)
    /\ ts[18].t \in {"true", "false"}

parseNote(ts) ==
    Note(ts[3].v, ts[6].v, ts[9].v, ts[12].v[1], ParseNumber(ts[15].v), ts[18].t = "true")

\* Whether the tokens are note objects separated by commas.
RECURSIVE IsItems(_)
IsItems(ts) ==
    /\ Len(ts) >= NoteTokens
    /\ IsNoteObject(SubSeq(ts, 1, NoteTokens))
    /\ \/ Len(ts) = NoteTokens
       \/ /\ Len(ts) > NoteTokens + 1
          /\ ts[NoteTokens + 1].t = ","
          /\ IsItems(SubSeq(ts, NoteTokens + 2, Len(ts)))

RECURSIVE parseItems(_)
parseItems(ts) ==
    IF Len(ts) < NoteTokens THEN <<>>
    ELSE <<parseNote(SubSeq(ts, 1, NoteTokens))>>
            \o parseItems(SubSeq(ts, NoteTokens + 2, Len(ts)))

IsArrayText(ts) ==
    /\ Len(ts) >= 2
    /\ ts[1].t = "["
    /\ ts[Len(ts)].t = "]"
    /\ Len(ts) = 2 \/ IsItems(SubSeq(ts, 2, Len(ts) - 1))

\* JSON.parse(text) on the texts of this model: an array of notes, the literal
\* null, or no JSON at all (a SyntaxError).
\* kind "array": value is the parsed array; "null": the value null; "throws".
JSONparse(ts) ==
    IF IsArrayText(ts)
    THEN [kind |-> "array", value |-> parseItems(SubSeq(ts, 2, Len(ts) - 1))]
    ELSE IF ts = <<Tok("null")>>
    THEN [kind |-> "null", value |-> <<>>]
    ELSE [kind |-> "throws", value |-> <<>>]

\* localStorage.getItem gives null for a missing key.
Absent == [present |-> FALSE, text |-> <<>>]

Slot(ts) == [present |-> TRUE, text |-> ts]

\* saved ? JSON.parse(saved) : []   -- null and '' are falsy.
loadNotes(slot) ==
    IF ~slot.present \/ slot.text = <<>>
    THEN [kind |-> "array", value |-> <<>>]
    ELSE JSONparse(slot.text)

(***************************************************************************)
(* Query engine.                                                           *)
(***************************************************************************)
\* A faulty matches: the search compares letters with their case.
matchesCaseSensitive(note, query, category) ==
    LET matchesSearch ==
            \/ includes(note.title, query)
            \/ includes(note.content, query)
        matchesCategory == category = "All" \/ note.category = category
    IN  matchesSearch /\ matchesCategory

matches(note, query, category) ==
    LET matchesSearch ==
            \/ includes(toLowerCase(note.title), toLowerCase(query))
            \/ includes(toLowerCase(note.content), toLowerCase(query))
        matchesCategory == category = "All" \/ note.category = category
    IN  matchesSearch /\ matchesCategory

\* Insert x into s, sorted by updatedAt descending, behind its equals (stable).
RECURSIVE InsertDesc(_, _)
InsertDesc(s, x) ==
    IF Len(s) = 0 THEN <<x>>
    ELSE IF s[1].updatedAt >= x.updatedAt THEN <<s[1]>> \o InsertDesc(Tail(s), x)
         ELSE <<x>> \o s

\* Array.prototype.sort((a, b) => b.updatedAt - a.updatedAt), a stable sort.
RECURSIVE SortDesc(_)
SortDesc(s) ==
    IF Len(s) = 0 THEN <<>>
    ELSE InsertDesc(SortDesc(SubSeq(s, 1, Len(s) - 1)), s[Len(s)])

\* A faulty filteredNotesOf: the matching notes are left in repository order.
filteredNotesOfUnsorted(ns, query, category) ==
    SelectSeq(ns, LAMBDA n : matches(n, query, category))

\* notes.filter(...).sort(...): SelectSeq is Array.prototype.filter.
filteredNotesOf(ns, query, category) ==
    SortDesc(SelectSeq(ns, LAMBDA n : matches(n, query, category)))

filteredNotes == filteredNotesOf(notes, searchQuery, selectedCategory)

(***************************************************************************)
(* State updaters of the handlers, as pure functions.                      *)
(***************************************************************************)
\* The note handleAddNote puts in the editor at Date.now() = t.
\* idTime and updatedTime are what the two reads of Date.now() give.
newNote(idTime, updatedTime) ==
    Note(toString(idTime), NoText, NoText, "General", updatedTime, FALSE)

\* A faulty stamp: the spread alone, updatedAt is not refreshed.
stampKeepingTime(updatedNote, t) == updatedNote

\* A faulty stamp: updatedAt is the creation time the id was made from.
stampWithCreationTime(updatedNote, t) ==
    [updatedNote EXCEPT !.updatedAt = ParseNumber(updatedNote.id)]

\* { ...updatedNote, updatedAt: Date.now() }
stamp(updatedNote, t) == [updatedNote EXCEPT !.updatedAt = t]

\* A faulty upsert: no lookup of an existing note, the note is always appended.
upsertAlwaysAppending(prev, updatedNote, t) ==
    Append(prev, [updatedNote EXCEPT !.updatedAt = t])

\* The setNotes updater of handleSaveNote.
upsert(prev, updatedNote, t) ==
    IF HasId(prev, updatedNote.id)
    THEN [i \in 1..Len(prev) |->
            IF prev[i].id = updatedNote.id THEN stamp(updatedNote, t) ELSE prev[i]]
    ELSE Append(prev, stamp(updatedNote, t))

\* A faulty removeNote: the notes behind the removed one are dropped with it.
removeNoteTruncating(prev, id) ==
    IF \E k \in 1..Len(prev) : prev[k].id = id
    THEN SubSeq(prev, 1, (CHOOSE k \in 1..Len(prev) : prev[k].id = id) - 1)
    ELSE prev

\* The setNotes updater of handleDeleteNote.
removeNote(prev, id) == SelectSeq(prev, LAMBDA n : n.id # id)

\* A faulty flipFavorite: the note is made a favorite whatever it was.
flipFavoriteSetting(prev, id) ==
    [i \in 1..Len(prev) |->
        IF prev[i].id = id THEN [prev[i] EXCEPT !.isFavorite = TRUE]
        ELSE prev[i]]

\* The setNotes updater of toggleFavorite.
flipFavorite(prev, id) ==
    [i \in 1..Len(prev) |->
        IF prev[i].id = id THEN [prev[i] EXCEPT !.isFavorite = ~prev[i].isFavorite]
        ELSE prev[i]]

\* An AIResponse: an absent title is NoText, an absent suggestedCategory is "".
AIResponse(title, suggestedCategory) ==
    [title |-> title, suggestedCategory |-> suggestedCategory]

EmptyResponse == AIResponse(NoText, "")

\* What the remote model answers to a suggestion request: the call throws
\* ("error"), its text parses to null ("null") or to an object ("object").
SuggestAnswer(kind, title, suggestedCategory) ==
    [kind |-> kind, title |-> title, suggestedCategory |-> suggestedCategory]

NoAnswer == SuggestAnswer("error", NoText, "")

SuggestAnswers ==
    {NoAnswer,
     SuggestAnswer("null", NoText, ""),
     SuggestAnswer("object", NoText, ""),
     SuggestAnswer("object", SuggestedTitle, ""),
     SuggestAnswer("object", SuggestedTitle, "Ideas"),
     SuggestAnswer("object", SuggestedTitle, "Finance")}

\* What the remote model answers to an enhance request: the call throws, or
\* response.text is the given text (NoText: undefined or '').
EnhanceAnswer(ok, text) == [ok |-> ok, text |-> text]

EnhanceAnswers ==
    {EnhanceAnswer(FALSE, NoText), EnhanceAnswer(TRUE, NoText),
     EnhanceAnswer(TRUE, EnhancedContent)}

\* A faulty shortCircuits: only empty content is answered without a remote call.
shortCircuitsOnlyEmpty(content) == content = NoText

\* Whether getSmartSuggestions returns without calling the remote model.
shortCircuits(content) == content = NoText \/ Len(content) < MinContentLength

\* getSmartSuggestions(content), the remote model answering `answer`.
\* Returns [isNull, value]: JSON.parse may give null, which is no AIResponse.
getSmartSuggestions(content, answer) ==
    IF shortCircuits(content) THEN [isNull |-> FALSE, value |-> EmptyResponse]
    ELSE IF answer.kind = "error" THEN [isNull |-> FALSE, value |-> EmptyResponse]
    ELSE IF answer.kind = "null" THEN [isNull |-> TRUE, value |-> EmptyResponse]
    ELSE [isNull |-> FALSE, value |-> AIResponse(answer.title, answer.suggestedCategory)]

\* enhanceNote(content), the remote model answering `answer`.
enhanceNote(content, answer) ==
    IF answer.ok THEN OrElse(answer.text, content) ELSE content

\* The setEditingNote updater of handleAISuggestions, for suggestions that are an
\* object; prev is <<>> (null) or <<note>>.
applySuggestions(prev, suggestions) ==
    IF prev = <<>> THEN <<>>
    ELSE <<[prev[1] EXCEPT
              !.title = OrElse(prev[1].title, OrElse(suggestions.title, NoText)),
              !.category = OrElseCat(suggestions.suggestedCategory, prev[1].category)]>>

\* Whether the updater throws: it reads suggestions.title when prev is a note,
\* a TypeError when suggestions is null.  React runs the updater while it
\* renders, outside the handler's try block, and no error boundary is mounted.
updaterThrows(prev, suggestions) == suggestions.isNull /\ prev # <<>>

\* The setEditingNote updater of handleAIEnhance.
applyEnhanced(prev, enhanced) ==
    IF prev = <<>> THEN <<>> ELSE <<[prev[1] EXCEPT !.content = enhanced]>>

\* An AI call whose handler has not run to its end: the remote answer is
\* awaited, or it has arrived (answered) and the updates the handler queued
\* after its await are not rendered yet.  suggestion or enhancement is the
\* answer, throws tells whether the queued updater throws on the draft it was
\* queued on, overwritten whether setEditingNote was called with a value
\* after the updater was queued.  ended (history) tells how the editor
\* session that issued the call came to its end meanwhile: "" (it is still
\* open), "discard", "save", or "replaced" (another note was opened over it).
Call(kind, content) ==
    [kind |-> kind, content |-> content, ended |-> "", answered |-> FALSE,
     suggestion |-> NoAnswer, enhancement |-> EnhanceAnswer(FALSE, NoText),
     throws |-> FALSE, overwritten |-> FALSE]

EndSession(calls, how) ==
    [i \in 1..Len(calls) |->
        IF calls[i].ended = "" THEN [calls[i] EXCEPT !.ended = how] ELSE calls[i]]

\* setEditingNote(value) while updates of answered calls are queued: React
\* applies the queued updater first and the value after it, so the value wins.
Overwrite(calls) ==
    [i \in 1..Len(calls) |->
        IF calls[i].answered THEN [calls[i] EXCEPT !.overwritten = TRUE] ELSE calls[i]]

\* Whether the call's session was closed by discard or by save.
Stale(call) == call.ended \in {"discard", "save"}

RemoveAt(s, i) == SubSeq(s, 1, i - 1) \o SubSeq(s, i + 1, Len(s))

\* The file name handleDownloadPDF saves.
exportFileName(note) ==
    ReplaceSpaces(OrElse(note.title, UntitledNote)) \o <<".", "p", "d", "f">>

(***************************************************************************)
(* History of updatedAt per id.                                            *)
(***************************************************************************)
IdSpace == {toString(t) : t \in 0..MaxTime}

Track(seen, ns) ==
    [id \in IdSpace |->
        LET S == {seen[id]} \cup {ns[k].updatedAt : k \in {j \in 1..Len(ns) : ns[j].id = id}}
        IN  CHOOSE m \in S : \A x \in S : m >= x]

(***************************************************************************)
(* Initial states: the page is about to load with some stored value.       *)
(***************************************************************************)
\* A note of an earlier run: made at time 0, last saved at time 1.
StoredNote == Note(toString(0), TypedTitle, LongContent, "Work", 1, FALSE)

\* A stored value cut off in the middle of a note.
TruncatedText == SubSeq(stringify(<<StoredNote>>), 1, 5)

InitialSlots ==
    {Absent, Slot(<<>>), Slot(stringify(<<>>)), Slot(stringify(<<StoredNote>>)),
     Slot(TruncatedText), Slot(<<Tok("null")>>)}

Init ==
    /\ phase = "boot"
    /\ storage \in InitialSlots
    /\ notes = <<>>
    /\ searchQuery = NoText
    /\ selectedCategory = "All"
    /\ editingNote = <<>>
    /\ isNoteModalOpen = FALSE
    /\ isAILoading = FALSE
    /\ inflight = <<>>
    /\ lastExport = <<>>
    /\ shortCircuited = FALSE
    /\ effectPending = FALSE
    /\ now = 1
    /\ events = 0
    /\ maxSeen = [id \in IdSpace |-> 0]

(***************************************************************************)
(* Actions.                                                                *)
(***************************************************************************)
\* One more event happens.
Event == events < MaxEvents /\ events' = events + 1

Running == phase = "running"

\* The modal is rendered: isNoteModalOpen && editingNote.
ModalShown == Running /\ isNoteModalOpen /\ editingNote # <<>>

Draft == editingNote[1]

\* The persistence effect: runs after every render in which notes changed.
Persist(ns) == Slot(stringify(ns))

\* The slot once the persistence effect of the mount, if still pending, has
\* run: React runs pending effects before it renders the next update.
Flushed == IF effectPending THEN Persist(notes) ELSE storage

\* The component mounts: the useState initializer reads the slot and the first
\* render computes filteredNotes and stats.  The persistence effect of this
\* render is left pending: it runs in a later task.
\* JSON.parse throwing, or notes being null at notes.filter, ends the app.
Load ==
    /\ Event
    /\ phase = "boot"
    /\ LET loaded == loadNotes(storage)
       IN  IF loaded.kind = "array"
           THEN /\ phase' = "running"
                /\ notes' = loaded.value
                /\ effectPending' = TRUE
                /\ maxSeen' = Track(maxSeen, loaded.value)
           ELSE /\ phase' = "crashed"
                /\ UNCHANGED <<notes, effectPending, maxSeen>>
    /\ UNCHANGED <<storage, searchQuery, selectedCategory, editingNote, isNoteModalOpen,
                   isAILoading, inflight, lastExport, shortCircuited, now>>

\* The page is reloaded: all in-memory state is gone, the slot stays.
Reload ==
    /\ Event
    /\ phase # "boot"
    /\ phase' = "boot"
    /\ notes' = <<>>
    /\ searchQuery' = NoText
    /\ selectedCategory' = "All"
    /\ editingNote' = <<>>
    /\ isNoteModalOpen' = FALSE
    /\ isAILoading' = FALSE
    /\ inflight' = <<>>
    /\ lastExport' = <<>>
    /\ shortCircuited' = FALSE
    /\ effectPending' = FALSE
    /\ UNCHANGED <<storage, now, maxSeen>>

\* The persistence effect of the mount runs.
PersistenceEffect ==
    /\ Event
    /\ Running
    /\ effectPending
    /\ storage' = Persist(notes)
    /\ effectPending' = FALSE
    /\ UNCHANGED <<phase, notes, searchQuery, selectedCategory, editingNote,
                   isNoteModalOpen, isAILoading, inflight, lastExport,
                   shortCircuited, now, maxSeen>>

\* Time passes.
Tick ==
    /\ Event
    /\ now < MaxTime
    /\ now' = now + 1
    /\ UNCHANGED <<phase, storage, notes, searchQuery, selectedCategory, editingNote,
                   isNoteModalOpen, isAILoading, inflight, lastExport, shortCircuited, effectPending, maxSeen>>

\* The search box: setSearchQuery(e.target.value). A value equal to the state
\* queues no update, nothing is rendered and a pending effect stays pending.
SetSearchQuery ==
    /\ Event
    /\ Running
    /\ \E q \in SearchInputs :
          /\ searchQuery' = q
          /\ IF q = searchQuery
             THEN UNCHANGED <<storage, effectPending>>
             ELSE storage' = Flushed /\ effectPending' = FALSE
    /\ UNCHANGED <<phase, notes, selectedCategory, editingNote,
                   isNoteModalOpen, isAILoading, inflight,
                   lastExport, shortCircuited, now, maxSeen>>

\* A category filter button: setSelectedCategory(cat). A click on the selected
\* filter queues no update, nothing is rendered and a pending effect stays
\* pending.
SetSelectedCategory ==
    /\ Event
    /\ Running
    /\ \E c \in FilterInputs :
          /\ selectedCategory' = c
          /\ IF c = selectedCategory
             THEN UNCHANGED <<storage, effectPending>>
             ELSE storage' = Flushed /\ effectPending' = FALSE
    /\ UNCHANGED <<phase, notes, searchQuery, editingNote,
                   isNoteModalOpen, isAILoading, inflight,
                   lastExport, shortCircuited, now, maxSeen>>

\* A faulty handleAddNote: the new note is put in the repository at once.
handleAddNoteInserting ==
    /\ Event
    /\ Running
    /\ \E t \in now..MaxTime :
          /\ now' = t
          /\ editingNote' = <<newNote(now, t)>>
          /\ notes' = Append(notes, newNote(now, t))
    /\ isNoteModalOpen' = TRUE
    /\ storage' = Persist(notes')
    /\ effectPending' = FALSE
    /\ inflight' = Overwrite(EndSession(inflight, "replaced"))
    /\ UNCHANGED <<phase, searchQuery, selectedCategory,
                   isAILoading, lastExport, shortCircuited, maxSeen>>

\* The New Note button.  The handler reads the clock twice, for id and for
\* updatedAt, and the clock may move between the two reads.
handleAddNote ==
    /\ Event
    /\ Running
    /\ \E t \in now..MaxTime :
          /\ now' = t
          /\ editingNote' = <<newNote(now, t)>>
    /\ isNoteModalOpen' = TRUE
    /\ inflight' = Overwrite(EndSession(inflight, "replaced"))
    /\ storage' = Flushed
    /\ effectPending' = FALSE
    /\ UNCHANGED <<phase, notes, searchQuery, selectedCategory,
                   isAILoading, lastExport, shortCircuited, maxSeen>>

\* A click on a card of the grid, which shows filteredNotes.
handleEditNote ==
    /\ Event
    /\ Running
    /\ \E i \in 1..Len(filteredNotes) : editingNote' = <<filteredNotes[i]>>
    /\ isNoteModalOpen' = TRUE
    /\ inflight' = Overwrite(EndSession(inflight, "replaced"))
    /\ storage' = Flushed
    /\ effectPending' = FALSE
    /\ UNCHANGED <<phase, notes, searchQuery, selectedCategory,
                   isAILoading, lastExport, shortCircuited, now, maxSeen>>

\* A faulty handleSaveNote: the Save Note button is disabled while an AI call
\* is outstanding.
handleSaveNoteBlocked ==
    /\ Event
    /\ ModalShown
    /\ ~isAILoading
    /\ notes' = upsert(notes, Draft, now)
    /\ storage' = Persist(notes')
    /\ maxSeen' = Track(maxSeen, notes')
    /\ isNoteModalOpen' = FALSE
    /\ editingNote' = <<>>
    /\ inflight' = Overwrite(EndSession(inflight, "save"))
    /\ UNCHANGED <<phase, searchQuery, selectedCategory, isAILoading,
                   lastExport, shortCircuited, effectPending, now>>

\* The Save Note button of the modal: handleSaveNote(editingNote).
handleSaveNote ==
    /\ Event
    /\ ModalShown
    /\ notes' = upsert(notes, Draft, now)
    /\ storage' = Persist(notes')
    /\ maxSeen' = Track(maxSeen, notes')
    /\ isNoteModalOpen' = FALSE
    /\ editingNote' = <<>>
    /\ inflight' = Overwrite(EndSession(inflight, "save"))
    /\ UNCHANGED <<phase, searchQuery, selectedCategory, isAILoading,
                   lastExport, shortCircuited, effectPending, now>>

\* A faulty handleDeleteNoteWith: the note is removed whatever confirm() answers.
handleDeleteNoteUnconfirmed(i, confirmed) ==
    /\ Event
    /\ Running
    /\ i \in 1..Len(filteredNotes)
    /\ notes' = removeNote(notes, filteredNotes[i].id)
    /\ storage' = Persist(notes')
    /\ effectPending' = FALSE
    /\ UNCHANGED <<phase, searchQuery, selectedCategory, editingNote, isNoteModalOpen,
                   isAILoading, inflight, lastExport, shortCircuited, now, maxSeen>>

\* The trash button of the i-th card of the grid; confirm() answers confirmed.
handleDeleteNoteWith(i, confirmed) ==
    /\ Event
    /\ Running
    /\ i \in 1..Len(filteredNotes)
    /\ IF confirmed
       THEN /\ notes' = removeNote(notes, filteredNotes[i].id)
            /\ storage' = Persist(notes')
            /\ effectPending' = FALSE
       ELSE UNCHANGED <<notes, storage, effectPending>>
    /\ UNCHANGED <<phase, searchQuery, selectedCategory, editingNote, isNoteModalOpen,
                   isAILoading, inflight, lastExport, shortCircuited, now, maxSeen>>

handleDeleteNote ==
    \E i \in 1..Len(filteredNotes), confirmed \in BOOLEAN : handleDeleteNoteWith(i, confirmed)

\* The star button of a card.
toggleFavorite ==
    /\ Event
    /\ Running
    /\ \E i \in 1..Len(filteredNotes) :
          notes' = flipFavorite(notes, filteredNotes[i].id)
    /\ storage' = Persist(notes')
    /\ effectPending' = FALSE
    /\ UNCHANGED <<phase, searchQuery, selectedCategory, editingNote, isNoteModalOpen,
                   isAILoading, inflight, lastExport, shortCircuited, now, maxSeen>>

\* The backdrop and the X button of the modal: setIsNoteModalOpen(false).
CloseModal ==
    /\ Event
    /\ ModalShown
    /\ isNoteModalOpen' = FALSE
    /\ inflight' = EndSession(inflight, "discard")
    /\ UNCHANGED <<phase, storage, notes, searchQuery, selectedCategory, editingNote,
                   isAILoading, lastExport, shortCircuited, effectPending, now, maxSeen>>

\* An input of the modal: setEditingNote({...editingNote, field: value}).
SetDraft(n) ==
    /\ Event
    /\ editingNote' = <<n>>
    /\ inflight' = Overwrite(inflight)
    /\ UNCHANGED <<phase, storage, notes, searchQuery, selectedCategory,
                   isNoteModalOpen, isAILoading,
                   lastExport, shortCircuited, effectPending, now, maxSeen>>

SetCategory ==
    /\ ModalShown
    /\ \E c \in CategoryInputs : SetDraft([Draft EXCEPT !.category = c])

ToggleDraftFavorite ==
    /\ ModalShown
    /\ SetDraft([Draft EXCEPT !.isFavorite = ~Draft.isFavorite])

SetTitle ==
    /\ ModalShown
    /\ \E t \in TitleInputs : SetDraft([Draft EXCEPT !.title = t])

SetContent ==
    /\ ModalShown
    /\ \E c \in ContentInputs : SetDraft([Draft EXCEPT !.content = c])

\* A faulty AIButtonEnabled: the buttons are not disabled while a call is outstanding.
AIButtonEnabledWhileBusy == ModalShown /\ Draft.content # NoText

\* Both AI buttons: disabled={isAILoading || !editingNote.content}.
AIButtonEnabled == ModalShown /\ ~isAILoading /\ Draft.content # NoText

\* The Smart Suggest button.  For content under the threshold no remote call is
\* made and the handler runs to its end before any other event.
handleAISuggestions ==
    /\ Event
    /\ AIButtonEnabled
    /\ IF shortCircuits(Draft.content)
       THEN /\ editingNote' = applySuggestions(editingNote,
                                 getSmartSuggestions(Draft.content, NoAnswer).value)
            /\ isAILoading' = FALSE
            /\ inflight' = inflight
            /\ shortCircuited' = TRUE
            /\ effectPending' = effectPending
       ELSE /\ isAILoading' = TRUE
            /\ inflight' = Append(inflight, Call("suggest", Draft.content))
            /\ editingNote' = editingNote
            /\ shortCircuited' = shortCircuited
            /\ effectPending' = effectPending
    /\ UNCHANGED <<phase, storage, notes, searchQuery, selectedCategory,
                   isNoteModalOpen, lastExport, now, maxSeen>>

\* The AI Enhance button.
handleAIEnhance ==
    /\ Event
    /\ AIButtonEnabled
    /\ isAILoading' = TRUE
    /\ inflight' = Append(inflight, Call("enhance", Draft.content))
    /\ UNCHANGED <<phase, storage, notes, searchQuery, selectedCategory, editingNote,
                   isNoteModalOpen, lastExport, shortCircuited, effectPending, now, maxSeen>>

\* The remote model answers the i-th outstanding call with `answer`: the rest
\* of the handler runs.  It queues the state updater and, in the finally
\* block, setIsAILoading(false); what is rendered stays as it is until React
\* renders the queued updates.
SuggestionsDelivered(i, answer) ==
    /\ Running
    /\ i \in 1..Len(inflight)
    /\ inflight[i].kind = "suggest"
    /\ ~inflight[i].answered
    /\ inflight' =
          [inflight EXCEPT ![i] =
              [@ EXCEPT !.answered = TRUE,
                        !.suggestion = answer,
                        !.throws = updaterThrows(editingNote,
                                      getSmartSuggestions(inflight[i].content, answer))]]
    /\ UNCHANGED <<phase, storage, notes, searchQuery, selectedCategory, editingNote,
                   isNoteModalOpen, isAILoading, lastExport, shortCircuited,
                   effectPending, now, maxSeen>>

EnhanceDelivered(i, answer) ==
    /\ Running
    /\ i \in 1..Len(inflight)
    /\ inflight[i].kind = "enhance"
    /\ ~inflight[i].answered
    /\ inflight' =
          [inflight EXCEPT ![i] = [@ EXCEPT !.answered = TRUE, !.enhancement = answer]]
    /\ UNCHANGED <<phase, storage, notes, searchQuery, selectedCategory, editingNote,
                   isNoteModalOpen, isAILoading, lastExport, shortCircuited,
                   effectPending, now, maxSeen>>

\* React renders the updates the handler of the i-th call queued after its
\* await.  An updater that throws ends the app: it runs while React renders,
\* outside the handler's try block.
SuggestionsRendered(i) ==
    /\ Running
    /\ i \in 1..Len(inflight)
    /\ inflight[i].kind = "suggest"
    /\ inflight[i].answered
    /\ LET suggestions == getSmartSuggestions(inflight[i].content, inflight[i].suggestion)
       IN  IF inflight[i].throws
           THEN phase' = "crashed" /\ editingNote' = editingNote
           ELSE /\ phase' = phase
                /\ editingNote' =
                      IF inflight[i].overwritten \/ suggestions.isNull THEN editingNote
                      ELSE applySuggestions(editingNote, suggestions.value)
    /\ isAILoading' = FALSE
    /\ inflight' = RemoveAt(inflight, i)
    /\ UNCHANGED <<storage, notes, searchQuery, selectedCategory, isNoteModalOpen,
                   lastExport, shortCircuited, effectPending, now, maxSeen>>

\* A faulty EnhanceRendered: the busy flag is put down after the state updater,
\* inside the try block, so that a failed call leaves it up.
EnhanceRenderedWithoutFinally(i) ==
    /\ Running
    /\ i \in 1..Len(inflight)
    /\ inflight[i].kind = "enhance"
    /\ inflight[i].answered
    /\ editingNote' =
          IF inflight[i].overwritten THEN editingNote
          ELSE applyEnhanced(editingNote,
                             enhanceNote(inflight[i].content, inflight[i].enhancement))
    /\ isAILoading' = IF inflight[i].enhancement.ok THEN FALSE ELSE isAILoading
    /\ inflight' = RemoveAt(inflight, i)
    /\ UNCHANGED <<phase, storage, notes, searchQuery, selectedCategory, isNoteModalOpen,
                   lastExport, shortCircuited, effectPending, now, maxSeen>>

EnhanceRendered(i) ==
    /\ Running
    /\ i \in 1..Len(inflight)
    /\ inflight[i].kind = "enhance"
    /\ inflight[i].answered
    /\ editingNote' =
          IF inflight[i].overwritten THEN editingNote
          ELSE applyEnhanced(editingNote,
                             enhanceNote(inflight[i].content, inflight[i].enhancement))
    /\ isAILoading' = FALSE
    /\ inflight' = RemoveAt(inflight, i)
    /\ UNCHANGED <<phase, storage, notes, searchQuery, selectedCategory, isNoteModalOpen,
                   lastExport, shortCircuited, effectPending, now, maxSeen>>

\* The remote model answers the i-th outstanding call with `answer`.
SuggestionsReturnWith(i, answer) == Event /\ SuggestionsDelivered(i, answer)

EnhanceReturnWith(i, answer) == Event /\ EnhanceDelivered(i, answer)

SuggestionsReturnAt(i) == \E answer \in SuggestAnswers : SuggestionsReturnWith(i, answer)

EnhanceReturnAt(i) == \E answer \in EnhanceAnswers : EnhanceReturnWith(i, answer)

SuggestionsReturn == \E i \in 1..Len(inflight) : SuggestionsReturnAt(i)

EnhanceReturn == \E i \in 1..Len(inflight) : EnhanceReturnAt(i)

\* React renders the updates an answered call has queued.
RenderAt(i) == Event /\ (SuggestionsRendered(i) \/ EnhanceRendered(i))

Render == \E i \in 1..Len(inflight) : RenderAt(i)

\* The Export PDF button: disabled={!editingNote.content}.
handleDownloadPDF ==
    /\ Event
    /\ ModalShown
    /\ Draft.content # NoText
    /\ lastExport' = <<exportFileName(Draft)>>
    /\ shortCircuited' = shortCircuited
    /\ effectPending' = effectPending
    /\ UNCHANGED <<phase, storage, notes, searchQuery, selectedCategory, editingNote,
                   isNoteModalOpen, isAILoading, inflight, now, maxSeen>>

Next ==
    \/ Load
    \/ PersistenceEffect
    \/ Reload
    \/ Tick
    \/ SetSearchQuery
    \/ SetSelectedCategory
    \/ handleAddNote
    \/ handleEditNote
    \/ handleSaveNote
    \/ handleDeleteNote
    \/ toggleFavorite
    \/ CloseModal
    \/ SetCategory
    \/ ToggleDraftFavorite
    \/ SetTitle
    \/ SetContent
    \/ handleAISuggestions
    \/ handleAIEnhance
    \/ SuggestionsReturn
    \/ EnhanceReturn
    \/ Render
    \/ handleDownloadPDF

Spec == Init /\ [][Next]_vars

(***************************************************************************)
(* The app with every issued call answered.  The budget of events bounds   *)
(* what the user, the clock and the page do; the answer to a call that was *)
(* issued arrives whatever is left of it, and it does arrive: the promise  *)
(* of the remote call settles, with a response or with an error, and React *)
(* renders the updates it has queued.                                      *)
(***************************************************************************)
SuggestionsArrive ==
    /\ events' = events
    /\ \E i \in 1..Len(inflight), answer \in SuggestAnswers :
          SuggestionsDelivered(i, answer)

EnhanceArrive ==
    /\ events' = events
    /\ \E i \in 1..Len(inflight), answer \in EnhanceAnswers :
          EnhanceDelivered(i, answer)

RenderQueued ==
    /\ events' = events
    /\ \E i \in 1..Len(inflight) : SuggestionsRendered(i) \/ EnhanceRendered(i)

LiveNext ==
    \/ Load
    \/ PersistenceEffect
    \/ Reload
    \/ Tick
    \/ SetSearchQuery
    \/ SetSelectedCategory
    \/ handleAddNote
    \/ handleEditNote
    \/ handleSaveNote
    \/ handleDeleteNote
    \/ toggleFavorite
    \/ CloseModal
    \/ SetCategory
    \/ ToggleDraftFavorite
    \/ SetTitle
    \/ SetContent
    \/ handleAISuggestions
    \/ handleAIEnhance
    \/ SuggestionsArrive
    \/ EnhanceArrive
    \/ RenderQueued
    \/ handleDownloadPDF

LiveSpec ==
    /\ Init
    /\ [][LiveNext]_vars
    /\ WF_vars(SuggestionsArrive)
    /\ WF_vars(EnhanceArrive)
    /\ WF_vars(RenderQueued)

(***************************************************************************)
(* Claims.                                                                 *)
(***************************************************************************)
Distinct(ns) == \A i, j \in 1..Len(ns) : i # j => ns[i].id # ns[j].id

\* C1: once the editor session that issued an AI request was closed by discard
\* or by save, neither the arrival of the answer nor the rendering of what the
\* handler then queued changes a repository note or a draft shown in the
\* editor (a draft opened after the close included).
C1_StaleAnswerIgnored ==
    [][\A i \in 1..Len(inflight) :
          (/\ Stale(inflight[i])
           /\ (SuggestionsReturnAt(i) \/ EnhanceReturnAt(i) \/ RenderAt(i)))
             => /\ notes' = notes
                /\ isNoteModalOpen => editingNote' = editingNote]_vars

\* C2: at most one AI call, suggestions and enhance counted together, is
\* outstanding in every reachable state.
C2_AtMostOneCall == Len(inflight) <= 1

\* C2 witness: a call of a closed session is still outstanding while another
\* session is open with content to send: the buttons are there to be pressed.
C2_Witness ==
    /\ Len(inflight) = 1
    /\ Stale(inflight[1])
    /\ ModalShown
    /\ Draft.content # NoText

\* C3: when an enhance call fails while the session that issued it is still
\* open, the content of the draft after the handler's updates are rendered is
\* its content right before.
C3_FailedEnhanceKeepsContent ==
    [][\A i \in 1..Len(inflight) :
          (/\ inflight[i].ended = ""
           /\ inflight[i].kind = "enhance"
           /\ ~inflight[i].enhancement.ok
           /\ RenderAt(i))
             => editingNote'[1].content = editingNote[1].content]_vars

\* C4: load never fails, whatever the storage slot holds, and an absent or
\* malformed value gives the empty collection.
C4_LoadNeverFails ==
    [][Load => /\ phase' = "running"
               /\ loadNotes(storage).kind # "array" => notes' = <<>>]_vars

\* C5: saving a draft whose id is in the collection replaces that note by the
\* draft with updatedAt the current time, keeps the size and every other note;
\* saving a draft whose id is not in it appends the draft with updatedAt the
\* current time, and the size grows by one.
C5_Upsert ==
    [][handleSaveNote =>
          LET d == [editingNote[1] EXCEPT !.updatedAt = now]
          IN  IF \E i \in 1..Len(notes) : notes[i].id = d.id
              THEN /\ Len(notes') = Len(notes)
                   /\ \A i \in 1..Len(notes) :
                         notes'[i] = IF notes[i].id = d.id THEN d ELSE notes[i]
              ELSE /\ Len(notes') = Len(notes) + 1
                   /\ notes'[Len(notes')] = d
                   /\ \A i \in 1..Len(notes) : notes'[i] = notes[i]]_vars

\* C5 witness: the stored note was replaced by a later save (its updatedAt is
\* past the stored one) and another note was appended.
C5_Witness ==
    /\ Len(notes) = 2
    /\ \E i \in 1..Len(notes) :
          notes[i].id = StoredNote.id /\ notes[i].updatedAt > StoredNote.updatedAt
    /\ \E i \in 1..Len(notes) : notes[i].id # StoredNote.id

\* C6: no two notes of the repository have the same id.
C6_UniqueIds == Distinct(notes)

\* C6 witness: two notes are in the repository and the editor holds a new draft
\* whose id is the id of one of them.
C6_Witness ==
    /\ Len(notes) >= 2
    /\ ModalShown
    /\ HasId(notes, Draft.id)
    /\ Draft.content = NoText

\* C7: the id of the draft handleAddNote opens is the id of no note in the
\* repository.
C7_FreshId ==
    [][handleAddNote => ~HasId(notes, editingNote'[1].id)]_vars

\* C8: the category of the draft and of every note of the repository is one of
\* General, Personal, Work, Ideas, Urgent.
C8_CategoryValid ==
    /\ \A i \in 1..Len(notes) : notes[i].category \in Category
    /\ editingNote # <<>> => editingNote[1].category \in Category

\* C9: the updatedAt of a note in the repository is at least every updatedAt a
\* repository note with its id had before.
C9_UpdatedAtMonotonic ==
    \A i \in 1..Len(notes) : notes[i].updatedAt >= maxSeen[notes[i].id]

\* C9 witness: the stored note was saved again at a later time.
C9_Witness ==
    \E i \in 1..Len(notes) :
       /\ notes[i].id = StoredNote.id
       /\ notes[i].updatedAt > StoredNote.updatedAt
       /\ notes[i].content # StoredNote.content

\* C10: opening the editor, changing the draft, an AI request, its answer and
\* the rendering of it, export and discard leave the repository as it is, and
\* the storage slot too, but for the write of the unchanged repository that
\* the mount left pending; between two states of the running app the
\* repository changes only by a save, a delete or a favorite toggle.
C10_DraftIndependent ==
    [][/\ (\/ handleAddNote \/ handleEditNote \/ CloseModal
           \/ SetCategory \/ ToggleDraftFavorite \/ SetTitle \/ SetContent
           \/ handleAISuggestions \/ handleAIEnhance
           \/ SuggestionsReturn \/ EnhanceReturn \/ Render \/ handleDownloadPDF)
          => /\ notes' = notes
             /\ storage' = storage \/ (effectPending /\ storage' = Slot(stringify(notes)))
             /\ loadNotes(storage').value = loadNotes(storage).value
       /\ (Running /\ phase' = "running" /\ notes' # notes)
          => handleSaveNote \/ handleDeleteNote \/ toggleFavorite]_vars

\* C10 witness: a new draft was changed and discarded, and no note of the
\* repository has its id.
C10_Witness ==
    /\ Running
    /\ ~isNoteModalOpen
    /\ editingNote # <<>>
    /\ editingNote[1].id # StoredNote.id
    /\ editingNote[1].content # NoText
    /\ ~HasId(notes, editingNote[1].id)

\* C11: while the app runs, loading the storage slot gives a collection equal
\* to the repository; once the persistence effect of the mount has run, and so
\* after every save, confirmed delete and favorite toggle, the slot holds the
\* serialization of the whole repository.
C11_WriteThrough ==
    Running =>
       /\ loadNotes(storage) = [kind |-> "array", value |-> notes]
       /\ ~effectPending => storage = Slot(stringify(notes))

\* C11 witness: the repository holds two notes, one of them a favorite, after
\* a save and a favorite toggle.
C11_Witness ==
    /\ Running
    /\ Len(notes) = 2
    /\ \E i \in 1..Len(notes) : notes[i].isFavorite
    /\ \E i \in 1..Len(notes) : notes[i].id # StoredNote.id
    /\ loadNotes(storage).value = notes

Ids(ns) == {ns[i].id : i \in 1..Len(ns)}

\* C12: an id leaves the repository, in memory between two states of the
\* running app or in the storage slot in any step, only in a delete whose
\* confirmation was accepted; a delete whose confirmation was declined leaves
\* the repository and the slot as they are.
C12_OnlyConfirmedDeleteRemoves ==
    [][/\ (\/ Running /\ phase' = "running" /\ ~(Ids(notes) \subseteq Ids(notes'))
           \/ ~(Ids(loadNotes(storage).value) \subseteq Ids(loadNotes(storage').value)))
          => \E i \in 1..Len(filteredNotes) : handleDeleteNoteWith(i, TRUE)
       /\ \A i \in 1..Len(filteredNotes) :
             handleDeleteNoteWith(i, FALSE) => notes' = notes /\ storage' = storage]_vars

\* C12 witness: the stored note was deleted while another note, saved before,
\* stays in the repository.
C12_Witness ==
    /\ Running
    /\ Len(notes) = 1
    /\ ~HasId(notes, StoredNote.id)
    /\ maxSeen[StoredNote.id] > 0

\* C13: for the repository of every reachable state and every id, removeNote
\* gives the repository without the note of that id, the other notes as they
\* were and in their order; for an id of no note it gives the repository
\* itself; removing the id a second time changes nothing.
C13_RemoveExactlyThat ==
    \A id \in IdSpace :
       LET r == removeNote(notes, id)
           K == {k \in 1..Len(notes) : notes[k].id = id}
       IN  /\ ~HasId(r, id)
           /\ IF K = {} THEN r = notes ELSE \E k \in K : r = RemoveAt(notes, k)
           /\ removeNote(r, id) = r

\* C13 witness: a note that was saved is deleted, the stored note is still in
\* the repository, and some id is the id of no note.
C13_Witness ==
    /\ Running
    /\ notes # <<>>
    /\ HasId(notes, StoredNote.id)
    /\ \E id \in IdSpace : id # StoredNote.id /\ maxSeen[id] > 0 /\ ~HasId(notes, id)
    /\ \E id \in IdSpace : maxSeen[id] = 0 /\ ~HasId(notes, id)

\* C14: for the repository of every reachable state and every id, flipFavorite
\* gives a repository of the same size in which the note of that id has
\* isFavorite negated and its id, title, content, category and updatedAt as
\* they were, and every other note is as it was; for an id of no note it gives
\* the repository itself.
C14_ToggleFlipsOnlyFavorite ==
    \A id \in IdSpace :
       LET r == flipFavorite(notes, id)
       IN  /\ Len(r) = Len(notes)
           /\ \A k \in 1..Len(notes) :
                 IF notes[k].id = id
                 THEN r[k] = Note(notes[k].id, notes[k].title, notes[k].content,
                                  notes[k].category, notes[k].updatedAt,
                                  ~notes[k].isFavorite)
                 ELSE r[k] = notes[k]
           /\ ~HasId(notes, id) => r = notes

\* C14 witness: of two notes in the repository the first is a favorite with
\* the updatedAt it was stored with, the second is none, and some id is the id
\* of no note.
C14_Witness ==
    /\ Running
    /\ Len(notes) = 2
    /\ notes[1].isFavorite
    /\ ~notes[2].isFavorite
    /\ notes[1].updatedAt = StoredNote.updatedAt
    /\ \E id \in IdSpace : ~HasId(notes, id)

\* C15: when the answer of a suggestion call is an object and its updates are
\* rendered in the editor session that issued the call, the title of the draft afterwards is its
\* title before if that was not empty and the suggested title otherwise; its
\* category is the suggested category if one was returned and its category
\* before otherwise; its content, id, isFavorite and updatedAt are as before.
C15_SuggestionsApplied ==
    [][\A i \in 1..Len(inflight) :
          (/\ inflight[i].kind = "suggest"
           /\ inflight[i].answered
           /\ inflight[i].suggestion.kind = "object"
           /\ inflight[i].ended = ""
           /\ editingNote # <<>>
           /\ RenderAt(i))
             => /\ editingNote' # <<>>
                /\ editingNote'[1].title =
                      IF editingNote[1].title # NoText THEN editingNote[1].title
                      ELSE inflight[i].suggestion.title
                /\ editingNote'[1].category =
                      IF inflight[i].suggestion.suggestedCategory # ""
                      THEN inflight[i].suggestion.suggestedCategory
                      ELSE editingNote[1].category
                /\ editingNote'[1].content = editingNote[1].content
                /\ editingNote'[1].id = editingNote[1].id
                /\ editingNote'[1].isFavorite = editingNote[1].isFavorite
                /\ editingNote'[1].updatedAt = editingNote[1].updatedAt]_vars

\* C16: when a suggestion call fails (the call throws, or its text is no
\* suggestion object) while the editor is open, the draft after the handler's
\* updates are rendered is the draft before, field for field, and the editor
\* is still open on it.
C16_FailureKeepsDraft ==
    [][\A i \in 1..Len(inflight) :
          (/\ inflight[i].kind = "suggest"
           /\ inflight[i].answered
           /\ inflight[i].suggestion.kind \in {"error", "null"}
           /\ ModalShown
           /\ RenderAt(i))
             => /\ editingNote' = editingNote
                /\ phase' = "running"
                /\ isNoteModalOpen']_vars

\* C17: in every state with the editor open and an event still to come, with
\* an AI call outstanding, answered, failed or never made, Save Note and the
\* close button can be pressed, and Export PDF can when the content of the
\* draft is not empty; a save gives the repository the upsert of the draft at
\* the current time, a close and an export leave the repository as it is,
\* whatever the busy flag and the outstanding calls are.
C17_AINeverBlocks ==
    [][/\ (ModalShown /\ events < MaxEvents)
          => /\ ENABLED handleSaveNote
             /\ ENABLED CloseModal
             /\ Draft.content # NoText => ENABLED handleDownloadPDF
       /\ handleSaveNote
          => /\ notes' = upsert(notes, editingNote[1], now)
             /\ storage' = Slot(stringify(notes'))
       /\ (CloseModal \/ handleDownloadPDF)
          => notes' = notes /\ storage' = storage]_vars

\* C17 witness: a draft was saved into the repository while the call its
\* session had issued was still outstanding, and the editor is open again.
C17_Witness ==
    /\ ModalShown
    /\ isAILoading
    /\ Len(inflight) = 1
    /\ inflight[1].ended = "save"
    /\ \E k \in 1..Len(notes) :
          notes[k].id # StoredNote.id /\ notes[k].content = inflight[1].content

\* Search terms and category filters the query claims are checked against.
QuerySpace == SearchInputs \cup {<<"M", "i", "L", "k">>, <<"L">>, <<"b", "u", "y", "s">>}

FilterSpace == {"All"} \cup Category

\* Whether q occurs in text at some offset, letters compared without their case.
OccursIgnoringCase(q, text) ==
    \E k \in 0..(Len(text) - Len(q)) :
       \A j \in 1..Len(q) : LowerChar(text[k + j]) = LowerChar(q[j])

\* Whether the query of ns for search term q and filter c returns exactly the
\* notes of ns that match.
ExactFilter(ns, q, c) ==
    LET r == filteredNotesOf(ns, q, c)
    IN  /\ \A k \in 1..Len(ns) :
              (\E j \in 1..Len(r) : r[j] = ns[k])
                 <=> /\ c = "All" \/ ns[k].category = c
                     /\ \/ q = NoText
                        \/ OccursIgnoringCase(q, ns[k].title)
                        \/ OccursIgnoringCase(q, ns[k].content)
        /\ \A j \in 1..Len(r) : \E k \in 1..Len(ns) : r[j] = ns[k]

\* C18: for every repository a step gives, every search term and every
\* category filter, the query returns a note of the repository if and only if
\* (the filter is All or is the category of the note) and (the search term is
\* empty or occurs, case ignored, in its title or its content), and returns
\* nothing else; typing a search term or choosing a filter leaves the
\* repository and the collection the storage slot holds as they are, and the
\* grid then shows exactly the matching notes.
C18_FilterExact ==
    [][/\ notes' # notes
          => \A q \in QuerySpace, c \in FilterSpace : ExactFilter(notes', q, c)
       /\ (SetSearchQuery \/ SetSelectedCategory)
          => /\ notes' = notes
             /\ loadNotes(storage').value = loadNotes(storage).value
             /\ ExactFilter(notes', searchQuery', selectedCategory')]_vars

\* C18 witness: with a search term typed in other case and a category chosen,
\* the grid shows one of the two notes of the repository and not the other.
C18_Witness ==
    /\ Running
    /\ searchQuery = <<"b", "U">>
    /\ selectedCategory = "Work"
    /\ Len(notes) = 2
    /\ Len(filteredNotes) = 1
    /\ \E k \in 1..Len(notes) :
          notes[k].category = "Work" /\ notes[k].content = ShortContent

\* How often x occurs in s.
Count(s, x) == Cardinality({i \in 1..Len(s) : s[i] = x})

\* Whether the query of ns for search term q and filter c is in descending
\* order of updatedAt and holds each matching note as often as ns does.
SortedPermutation(ns, q, c) ==
    LET r == filteredNotesOf(ns, q, c)
        M == {k \in 1..Len(ns) : matches(ns[k], q, c)}
    IN  /\ \A j \in 1..(Len(r) - 1) : r[j].updatedAt >= r[j + 1].updatedAt
        /\ Len(r) = Cardinality(M)
        /\ \A k \in M : Count(r, ns[k]) = Cardinality({m \in M : ns[m] = ns[k]})

\* C19: for every repository a step gives, every search term and every
\* category filter, the query output is in descending order of updatedAt and
\* is a rearrangement of the matching notes, none lost, none twice; the grid
\* shown once a search term is typed or a filter chosen is one.
C19_SortedDescending ==
    [][/\ notes' # notes
          => \A q \in QuerySpace, c \in FilterSpace : SortedPermutation(notes', q, c)
       /\ (SetSearchQuery \/ SetSelectedCategory)
          => SortedPermutation(notes', searchQuery', selectedCategory')]_vars

\* C19 witness: the repository holds an older note before a newer one, and the
\* grid shows both, the newer one first.
C19_Witness ==
    /\ Running
    /\ Len(notes) = 2
    /\ notes[1].updatedAt < notes[2].updatedAt
    /\ Len(filteredNotes) = 2
    /\ filteredNotes[1] = notes[2]
    /\ filteredNotes[2] = notes[1]

\* C20: getSmartSuggestions gives the empty response for content of fewer than
\* 10 characters whatever the remote model would answer, 9 characters being
\* under the threshold and 10 not; when Smart Suggest is pressed on a draft
\* with such content no call is issued, and the draft and the busy flag after
\* the handler has run are what they were.
C20_ShortContentShortCircuits ==
    [][handleAISuggestions =>
          /\ shortCircuits(SubSeq(LongContent, 1, 9))
          /\ ~shortCircuits(SubSeq(LongContent, 1, 10))
          /\ Len(editingNote[1].content) < 10
                => /\ \A answer \in SuggestAnswers :
                         getSmartSuggestions(editingNote[1].content, answer)
                            = [isNull |-> FALSE, value |-> EmptyResponse]
                   /\ inflight' = inflight
                   /\ editingNote' = editingNote
                   /\ isAILoading' = isAILoading
          /\ Len(editingNote[1].content) >= 10 => Len(inflight') = Len(inflight) + 1]_vars

\* C20 witness: Smart Suggest was pressed on content under the threshold; the
\* editor is open on the draft with its typed title, its category and that
\* content, no call is outstanding and the busy flag is down.
C20_Witness ==
    /\ ModalShown
    /\ Draft.content = ShortContent
    /\ Draft.title = TypedTitle
    /\ Draft.category = "General"
    /\ ~isAILoading
    /\ inflight = <<>>
    /\ shortCircuited

\* C21: in every reachable state isAILoading is up if and only if the handler
\* of a call that was issued has not run to its end (the answer is awaited, or
\* the updates queued on its arrival are not rendered yet); the rendering of
\* them, after a response or an error, in a session still open or closed
\* meanwhile, leaves the flag down; and whenever the flag is up it is down
\* again later.
C21_BusyTracksCall ==
    /\ [](isAILoading <=> inflight # <<>>)
    /\ [][RenderQueued => ~isAILoading']_vars
    /\ isAILoading ~> ~isAILoading

\* C21 witness: an enhance call was issued and answered in the open editor:
\* the draft has the enhanced content, no call is outstanding, the flag is down.
C21_Witness ==
    /\ ModalShown
    /\ Draft.content = EnhancedContent
    /\ inflight = <<>>
    /\ ~isAILoading

====
